---- MODULE Spec2Model ----
(***************************************************************************)
(* pokestats: the Datafile class (record store, name lookup, EV-yield and  *)
(* hidden-ability queries) and the command-line run of pokestats.py.       *)
(*                                                                         *)
(* A Python str is a sequence of one-character strings.  An Optional value *)
(* returned by a method is a record [t, v]: t is the Python type and v the *)
(* payload (None has the payload <<>>).                                    *)
(***************************************************************************)
EXTENDS Integers, Sequences, FiniteSets, TLC

VARIABLES
    data,    \* Datafile.data: the loaded sequence of records
    call,    \* the method call evaluated last: [op, pokemon]
    result,  \* the value that call returned
    argv,    \* sys.argv[1:] of the process run
    file,    \* pokemon.json: [exists, lines]
    pc,      \* position of the __main__ block
    command, \* what handle_args returned
    loads,   \* number of completed load_data calls
    exc,     \* the uncaught exception that ended the run, "" if none
    stdout   \* the lines printed so far

vars == <<data, call, result, argv, file, pc, command, loads, exc, stdout>>

(***************************************************************************)
(* Python values                                                           *)
(***************************************************************************)
PyNone == [t |-> "NoneType", v |-> <<>>]
PyStr(s) == [t |-> "str", v |-> s]
PyList(l) == [t |-> "list", v |-> l]
\* a reference to the dict self.data[n]
PyRef(n) == [t |-> "dict", v |-> <<n>>]

\* bool(x) of an Optional[str], Optional[list] or Optional[dict]
Truthy(x) ==
    CASE x.t = "NoneType" -> FALSE
      [] x.t = "dict" -> TRUE
      [] OTHER -> Len(x.v) > 0

(***************************************************************************)
(* str.lower(), str(int), str.split and `in` on character sequences        *)
(***************************************************************************)
UpperLetters ==
    <<"A", "B", "C", "D", "E", "F", "G", "H", "I", "J", "K", "L", "M",
      "N", "O", "P", "Q", "R", "S", "T", "U", "V", "W", "X", "Y", "Z", "É">>

LowerLetters ==
    <<"a", "b", "c", "d", "e", "f", "g", "h", "i", "j", "k", "l", "m",
      "n", "o", "p", "q", "r", "s", "t", "u", "v", "w", "x", "y", "z", "é">>

LowerChar(c) ==
    IF \E i \in 1..Len(UpperLetters) : UpperLetters[i] = c
    THEN LowerLetters[CHOOSE i \in 1..Len(UpperLetters) : UpperLetters[i] = c]
    ELSE c

lower(s) == [i \in 1..Len(s) |-> LowerChar(s[i])]

Digits == <<"0", "1", "2", "3", "4", "5", "6", "7", "8", "9">>

RECURSIVE NatStr(_)
NatStr(n) ==
    IF n < 10 THEN <<Digits[n + 1]>>
    ELSE NatStr(n \div 10) \o <<Digits[(n % 10) + 1]>>

\* f"{ev}" of an int
IntStr(n) == IF n < 0 THEN <<"-">> \o NatStr(-n) ELSE NatStr(n)

(***************************************************************************)
(* The Datafile object                                                     *)
(***************************************************************************)
ev_fields ==
    << <<"H", "P">>, <<"A", "t", "k">>, <<"D", "e", "f">>,
       <<"S", "p", "A", "t", "k">>, <<"S", "p", "D", "e", "f">>,
       <<"S", "p", "d">> >>

RECURSIVE get_dict_scan(_, _, _, _)
get_dict_scan(d, key, value, n) ==
    IF n > Len(d) THEN PyNone
    ELSE LET i == lower(d[n][key])
         IN  IF i = value THEN PyRef(n)
             ELSE get_dict_scan(d, key, value, n + 1)

\* the scan compares the stored name as written
RECURSIVE get_dict_scan_exact(_, _, _, _)
get_dict_scan_exact(d, key, value, n) ==
    IF n > Len(d) THEN PyNone
    ELSE LET i == d[n][key]
         IN  IF i = value THEN PyRef(n)
             ELSE get_dict_scan_exact(d, key, value, n + 1)

get_dict_exact(d, key, value) == get_dict_scan_exact(d, key, value, 1)

\* the scan keeps going after a match, so the last match wins
RECURSIVE get_dict_scan_last(_, _, _, _)
get_dict_scan_last(d, key, value, n) ==
    IF n > Len(d) THEN PyNone
    ELSE LET rest == get_dict_scan_last(d, key, value, n + 1)
         IN  IF rest.t = "dict" THEN rest
             ELSE IF lower(d[n][key]) = value THEN PyRef(n) ELSE PyNone

get_dict_last(d, key, value) == get_dict_scan_last(d, key, value, 1)

\* value is a str at both call sites, so every item[key] is lowercased
get_dict(d, key, value) == get_dict_scan(d, key, value, 1)

\* the lookup both queries start with: get_dict(key="name", value=pokemon.lower())
find_by_name(d, pokemon) == get_dict(d, "name", lower(pokemon))

ev_yield(d, pokemon) ==
    LET pokemon_data == find_by_name(d, pokemon)
    IN  IF Truthy(pokemon_data)
        THEN PyList(d[pokemon_data.v[1]]["ev_yield"])
        ELSE PyNone

\* the message is built from the lowercased name
not_found_lowered(pokemon) ==
    <<"P", "o", "k", "é", "m", "o", "n", " ">> \o lower(pokemon)
        \o <<" ", "n", "o", "t", " ", "f", "o", "u", "n", "d">>

not_found(pokemon) ==
    <<"P", "o", "k", "é", "m", "o", "n", " ">> \o pokemon
        \o <<" ", "n", "o", "t", " ", "f", "o", "u", "n", "d">>

RECURSIVE ev_loop(_, _, _)
ev_loop(evs, n, output) ==
    IF n > Len(evs) THEN output
    ELSE LET ev == evs[n]
             sep == IF output /= <<>> THEN output \o <<",", " ">> ELSE output
         IN  IF ev /= 0
             THEN ev_loop(evs, n + 1,
                          sep \o ev_fields[n] \o <<":", " ">> \o IntStr(ev))
             ELSE ev_loop(evs, n + 1, output)

\* the separator is written after every entry instead of between entries
RECURSIVE ev_loop_trailing(_, _, _)
ev_loop_trailing(evs, n, output) ==
    IF n > Len(evs) THEN output
    ELSE LET ev == evs[n]
         IN  IF ev /= 0
             THEN ev_loop_trailing(evs, n + 1,
                      output \o ev_fields[n] \o <<":", " ">> \o IntStr(ev)
                          \o <<",", " ">>)
             ELSE ev_loop_trailing(evs, n + 1, output)

print_ev_yield_trailing(d, pokemon) ==
    LET evs == ev_yield(d, pokemon)
    IN  IF ~Truthy(evs) THEN not_found(pokemon)
        ELSE ev_loop_trailing(evs.v, 1, <<>>)

\* the entry test is ev > 0 instead of the truthiness of ev
RECURSIVE ev_loop_positive(_, _, _)
ev_loop_positive(evs, n, output) ==
    IF n > Len(evs) THEN output
    ELSE LET ev == evs[n]
             sep == IF output /= <<>> THEN output \o <<",", " ">> ELSE output
         IN  IF ev > 0
             THEN ev_loop_positive(evs, n + 1,
                      sep \o ev_fields[n] \o <<":", " ">> \o IntStr(ev))
             ELSE ev_loop_positive(evs, n + 1, output)

print_ev_yield_positive(d, pokemon) ==
    LET evs == ev_yield(d, pokemon)
    IN  IF ~Truthy(evs) THEN not_found(pokemon)
        ELSE ev_loop_positive(evs.v, 1, <<>>)

\* the not-found test is `not any(ev_yield)` instead of `not ev_yield`
print_ev_yield_any(d, pokemon) ==
    LET evs == ev_yield(d, pokemon)
    IN  IF ~Truthy(evs) \/ \A n \in 1..Len(evs.v) : evs.v[n] = 0
        THEN not_found(pokemon)
        ELSE ev_loop(evs.v, 1, <<>>)

print_ev_yield(d, pokemon) ==
    LET evs == ev_yield(d, pokemon)
    IN  IF ~Truthy(evs) THEN not_found(pokemon)
        ELSE ev_loop(evs.v, 1, <<>>)

\* the abilities are compared ignoring case
hidden_ability_ci(d, pokemon) ==
    LET pokemon_data == find_by_name(d, pokemon)
    IN  IF ~Truthy(pokemon_data) THEN PyNone
        ELSE LET abilities == d[pokemon_data.v[1]]["abilities"]
             IN  IF lower(abilities[3]) /= lower(abilities[1])
                    /\ lower(abilities[3]) /= lower(abilities[2])
                 THEN PyStr(abilities[3])
                 ELSE PyStr(<<"N", "o", "n", "e">>)

hidden_ability(d, pokemon) ==
    LET pokemon_data == find_by_name(d, pokemon)
    IN  IF ~Truthy(pokemon_data) THEN PyNone
        ELSE LET abilities == d[pokemon_data.v[1]]["abilities"]
             IN  IF abilities[3] /= abilities[1] /\ abilities[3] /= abilities[2]
                 THEN PyStr(abilities[3])
                 ELSE PyStr(<<"N", "o", "n", "e">>)

print_hidden_ability(d, pokemon) ==
    LET ha == hidden_ability(d, pokemon)
    IN  IF Truthy(ha)
        THEN <<"H", "i", "d", "d", "e", "n", " ", "a", "b", "i", "l", "i",
               "t", "y", ":", " ">> \o ha.v
        ELSE not_found(pokemon)

(***************************************************************************)
(* Bounded inputs                                                          *)
(***************************************************************************)
MaxStore == 2
MaxParams == 2
MaxLines == 2

SeqsUpTo(S, n) == UNION {[1..k -> S] : k \in 0..n}

StoreNames == { <<"A", "b">>, <<"a", "B">>, <<"B">>, <<"É", "-">> }

QueryNames ==
    { <<>>, <<"a", "b">>, <<"A", "B">>, <<"A", "b">>, <<"b">>,
      <<"é", "-">>, <<"É", "-">>, <<"b", "a">> }

Static == <<"S", "t">>
LightningRod == <<"L", " ", "R">>

\* ev_yield and abilities of the records of the name-lookup stores
Profiles ==
    { [ev_yield |-> <<0, 0, 0, 0, 0, 0>>,
       abilities |-> <<Static, Static, Static>>],
      [ev_yield |-> <<0, 0, 0, 2, 0, 0>>,
       abilities |-> <<Static, LightningRod, <<"I">> >>] }

Records ==
    { [name |-> n, ev_yield |-> p.ev_yield, abilities |-> p.abilities] :
        n \in StoreNames, p \in Profiles }

Stores == SeqsUpTo(Records, MaxStore)

EvValues == {-1, 0, 12}

EvStores ==
    { << [name |-> <<"A", "b">>, ev_yield |-> e,
          abilities |-> <<Static, Static, Static>>] >> :
        e \in [1..Len(ev_fields) -> EvValues] }

AbilityStrings ==
    { <<>>, Static, <<"s", "t">>, LightningRod, <<"N", "o", "n", "e">> }

HaStores ==
    { << [name |-> <<"A", "b">>, ev_yield |-> <<0, 0, 0, 2, 0, 0>>,
          abilities |-> a] >> :
        a \in [1..3 -> AbilityStrings] }

NoCall == [op |-> "", pokemon |-> <<>>]

(***************************************************************************)
(* Calls on a constructed Datafile                                         *)
(***************************************************************************)
Returns(op, pokemon, value) ==
    /\ call' = [op |-> op, pokemon |-> pokemon]
    /\ result' = value
    /\ UNCHANGED <<argv, file, pc, command, loads, exc, stdout>>

\* the lookup step of both queries, get_dict(key="name", value=pokemon.lower())
Call_find_by_name(pokemon) ==
    /\ pc = "api"
    /\ Returns("find_by_name", pokemon, find_by_name(data, pokemon))
    /\ data' = data

Call_ev_yield(pokemon) ==
    /\ pc = "api"
    /\ Returns("ev_yield", pokemon, ev_yield(data, pokemon))
    /\ data' = data

\* the lookup rewrites each name it lowercases into the stored record
Call_print_ev_yield_lowering(pokemon) ==
    /\ pc = "api"
    /\ Returns("print_ev_yield", pokemon, PyStr(print_ev_yield(data, pokemon)))
    /\ data' = [n \in 1..Len(data) |->
                  [data[n] EXCEPT !["name"] = lower(data[n]["name"])]]

Call_print_ev_yield(pokemon) ==
    /\ pc = "api"
    /\ Returns("print_ev_yield", pokemon, PyStr(print_ev_yield(data, pokemon)))
    /\ data' = data

Call_hidden_ability(pokemon) ==
    /\ pc = "api"
    /\ Returns("hidden_ability", pokemon, hidden_ability(data, pokemon))
    /\ data' = data

Call_print_hidden_ability(pokemon) ==
    /\ pc = "api"
    /\ Returns("print_hidden_ability", pokemon,
               PyStr(print_hidden_ability(data, pokemon)))
    /\ data' = data

InitApi(stores) ==
    /\ data \in stores
    /\ call = NoCall
    /\ result = PyNone
    /\ argv = <<>>
    /\ file = [exists |-> TRUE, lines |-> <<>>]
    /\ pc = "api"
    /\ command = PyNone
    /\ loads = 1
    /\ exc = ""
    /\ stdout = <<>>

Init == InitApi(Stores)

InitEv == InitApi(EvStores)

InitHa == InitApi(HaStores)

Next ==
    \E pokemon \in QueryNames :
        \/ Call_find_by_name(pokemon)
        \/ Call_ev_yield(pokemon)
        \/ Call_print_ev_yield(pokemon)
        \/ Call_hidden_ability(pokemon)
        \/ Call_print_hidden_ability(pokemon)

Spec == Init /\ [][Next]_vars

SpecEv == InitEv /\ [][Next]_vars

SpecHa == InitHa /\ [][Next]_vars

(***************************************************************************)
(* The command-line run: handle_args, Datafile(filepath), the method call  *)
(***************************************************************************)
Contains(s, c) == \E i \in 1..Len(s) : s[i] = c

\* s.split(c) for a one-character separator c
RECURSIVE Split(_, _)
Split(s, c) ==
    IF ~Contains(s, c) THEN <<s>>
    ELSE LET i == CHOOSE j \in 1..Len(s) :
                      s[j] = c /\ \A k \in 1..(j - 1) : s[k] /= c
         IN  <<SubSeq(s, 1, i - 1)>> \o Split(SubSeq(s, i + 1, Len(s)), c)

EV == <<"e", "v">>
HA == <<"h", "a">>
Pokemon == <<"p", "o", "k", "e", "m", "o", "n">>

\* Datafile.functions(): option -> FUNC; every option has one entry in PARAMS
functions(option) ==
    IF option = EV THEN "print_ev_yield" ELSE "print_hidden_ability"

required_params == <<Pokemon>>

\* the loop over command_params: [args, kwargs], kwargs a sequence of <<key, value>>
RECURSIVE parse_params(_, _, _)
parse_params(params, args, kwargs) ==
    IF params = <<>> THEN [args |-> args, kwargs |-> kwargs]
    ELSE LET param == Head(params)
         IN  IF Contains(param, "=")
             THEN LET items == Split(param, "=")
                      others == SelectSeq(kwargs, LAMBDA kv : kv[1] /= items[1])
                  IN  parse_params(Tail(params), args,
                                   Append(others, <<items[1], items[2]>>))
             ELSE parse_params(Tail(params), Append(args, param), kwargs)

\* what handle_args prints and returns for sys.argv[1:] = av
handle_args(av) ==
    IF Len(av) = 0
    THEN [print |-> <<[kind |-> "help", text |-> <<>>]>>, ret |-> PyNone]
    ELSE LET arg == lower(av[1])
         IN  IF arg \notin {EV, HA}
             THEN [print |-> <<[kind |-> "unknown_option", text |-> arg]>>,
                   ret |-> PyNone]
             ELSE IF Len(Tail(av)) /= Len(required_params)
             THEN [print |-> <<[kind |-> "option_help", text |-> arg]>>,
                   ret |-> PyNone]
             ELSE LET parsed == parse_params(Tail(av), <<>>, <<>>)
                  IN  [print |-> <<>>,
                       ret |-> [t |-> "dict", v |-> <<>>,
                                call |-> functions(arg),
                                args |-> parsed.args,
                                kwargs |-> parsed.kwargs]]

HandleArgs ==
    /\ pc = "handle_args"
    /\ LET r == handle_args(argv)
       IN  /\ stdout' = stdout \o r.print
           /\ command' = r.ret
           /\ pc' = IF Truthy(r.ret) THEN "construct" ELSE "exit"
    /\ UNCHANGED <<data, call, result, argv, file, loads, exc>>

\* a failed load is swallowed and the store is left empty
load_data_swallowing(f) ==
    IF ~f.exists \/ f.lines = <<>> \/ ~f.lines[1].json
    THEN [raises |-> "", json_data |-> <<>>]
    ELSE [raises |-> "", json_data |-> f.lines[1].value]

\* load_data: open(filepath), json.loads(f.readline())
load_data(f) ==
    IF ~f.exists THEN [raises |-> "FileNotFoundError", json_data |-> <<>>]
    ELSE IF f.lines = <<>> \/ ~f.lines[1].json
    THEN [raises |-> "JSONDecodeError", json_data |-> <<>>]
    ELSE [raises |-> "", json_data |-> f.lines[1].value]

\* Datafile.__init__
Construct ==
    /\ pc = "construct"
    /\ LET r == load_data(file)
       IN  IF r.raises /= ""
           THEN /\ exc' = r.raises
                /\ pc' = "exit"
                /\ UNCHANGED <<data, loads>>
           ELSE /\ data' = r.json_data
                /\ loads' = loads + 1
                /\ pc' = "call"
                /\ exc' = exc
    /\ UNCHANGED <<call, result, argv, file, command, stdout>>

\* method(*args, **kwargs) for a method with the one parameter pokemon
bind(cmd) ==
    IF Len(cmd.args) = 1 /\ Len(cmd.kwargs) = 0
    THEN [raises |-> "", pokemon |-> cmd.args[1]]
    ELSE IF Len(cmd.args) = 0 /\ Len(cmd.kwargs) = 1
            /\ cmd.kwargs[1][1] = Pokemon
    THEN [raises |-> "", pokemon |-> cmd.kwargs[1][2]]
    ELSE [raises |-> "TypeError", pokemon |-> <<>>]

\* print(method(*command["args"], **command["kwargs"]))
CallMethod ==
    /\ pc = "call"
    /\ LET b == bind(command)
       IN  IF b.raises /= ""
           THEN /\ exc' = b.raises
                /\ UNCHANGED <<call, result, stdout>>
           ELSE LET text == IF command.call = "print_ev_yield"
                            THEN print_ev_yield(data, b.pokemon)
                            ELSE print_hidden_ability(data, b.pokemon)
                IN  /\ call' = [op |-> command.call, pokemon |-> b.pokemon]
                    /\ result' = PyStr(text)
                    /\ stdout' = Append(stdout, [kind |-> "result", text |-> text])
                    /\ exc' = exc
    /\ pc' = "exit"
    /\ UNCHANGED <<data, argv, file, command, loads>>

Options == { EV, <<"E", "V">>, HA, <<"H", "a">>, <<"x">> }

ParamSamples ==
    { <<"A", "B">>, <<"b", "a">>, Pokemon \o <<"=", "a", "B">>,
      Pokemon \o <<"=">>, <<"x", "=", "B">> }

Argvs == {<<>>} \cup { <<o>> \o ps : o \in Options, ps \in SeqsUpTo(ParamSamples, MaxParams) }

JsonLines ==
    { [json |-> TRUE, value |-> st] :
        st \in { <<>>,
                 << [name |-> <<"A", "b">>, ev_yield |-> <<0, 0, 0, 2, 0, 0>>,
                     abilities |-> <<Static, LightningRod, <<"I">> >>] >> } }

\* a line that is no JSON document, such as the first line of a pretty-printed file
TextLine == [json |-> FALSE, value |-> <<>>]

Files ==
    { [exists |-> FALSE, lines |-> <<>>] } \cup
    { [exists |-> TRUE, lines |-> ls] :
        ls \in SeqsUpTo(JsonLines \cup {TextLine}, MaxLines) }

InitMain ==
    /\ argv \in Argvs
    /\ file \in Files
    /\ pc = "handle_args"
    /\ data = <<>>
    /\ call = NoCall
    /\ result = PyNone
    /\ command = PyNone
    /\ loads = 0
    /\ exc = ""
    /\ stdout = <<>>

NextMain == HandleArgs \/ Construct \/ CallMethod

SpecMain == InitMain /\ [][NextMain]_vars

(***************************************************************************)
(* Vocabulary of the properties                                            *)
(***************************************************************************)
\* a and b are the same letter up to casing, or the same character
SameLetter(a, b) ==
    \/ a = b
    \/ \E i \in 1..Len(UpperLetters) :
           {a, b} = {UpperLetters[i], LowerLetters[i]}

\* q differs from name in letter casing only
CaseVariant(q, name) ==
    /\ Len(q) = Len(name)
    /\ \A i \in 1..Len(q) : SameLetter(q[i], name[i])

\* the indices of the records whose lowercased name is the lowercased query
Matches(d, q) == {n \in 1..Len(d) : lower(d[n]["name"]) = lower(q)}

FirstMatch(d, q) == CHOOSE n \in Matches(d, q) : \A m \in Matches(d, q) : n <= m

\* needle occurs in hay as a contiguous run of characters
Infix(needle, hay) ==
    \E i \in 0..(Len(hay) - Len(needle)) :
        SubSeq(hay, i + 1, i + Len(needle)) = needle

NotFoundText == <<"n", "o", "t", " ", "f", "o", "u", "n", "d">>

HiddenAbilityPrefix ==
    <<"H", "i", "d", "d", "e", "n", " ", "a", "b", "i", "l", "i", "t", "y",
      ":", " ">>

\* "<label>: <value>" of stat position n
Entry(evs, n) == ev_fields[n] \o <<":", " ">> \o IntStr(evs[n])

\* the entries of the nonzero positions n..6, joined by ", "
RECURSIVE JoinedFrom(_, _)
JoinedFrom(evs, n) ==
    IF n > Len(evs) THEN <<>>
    ELSE LET rest == JoinedFrom(evs, n + 1)
         IN  IF evs[n] = 0 THEN rest
             ELSE IF rest = <<>> THEN Entry(evs, n)
             ELSE Entry(evs, n) \o <<",", " ">> \o rest

\* the ", "-separated pieces of a rendered yield
Pieces(output) ==
    LET raw == Split(output, ",")
    IN  [k \in 1..Len(raw) |->
            IF k > 1 /\ Len(raw[k]) > 0 /\ raw[k][1] = " "
            THEN Tail(raw[k]) ELSE raw[k]]

\* the rendered yield has an entry for stat position n
HasEntry(output, n) ==
    LET label == ev_fields[n] \o <<":", " ">>
    IN  \E k \in 1..Len(Pieces(output)) :
            /\ Len(Pieces(output)[k]) > Len(label)
            /\ SubSeq(Pieces(output)[k], 1, Len(label)) = label

\* the derivation of the hidden ability from [a0, a1, a2]
Derived(a) ==
    IF a[3] = a[1] \/ a[3] = a[2] THEN <<"N", "o", "n", "e">> ELSE a[3]

Matched == Matches(data, call.pokemon) /= {}

MatchedRecord == data[FirstMatch(data, call.pokemon)]

(***************************************************************************)
(* Properties                                                              *)
(***************************************************************************)
\* C1: a query that differs from a stored name only in letter casing is
\* never reported absent: the lookup resolves a record whose name equals the
\* stored name ignoring case, and ev_yield / hidden_ability do not return None.
Thm_C1 ==
    \A n \in 1..Len(data) :
        CaseVariant(call.pokemon, data[n]["name"]) =>
            /\ call.op = "find_by_name" =>
                   /\ result.t = "dict"
                   /\ CaseVariant(data[result.v[1]]["name"], data[n]["name"])
            /\ call.op = "ev_yield" => result.t = "list"
            /\ call.op = "hidden_ability" => result.t = "str"

Wit_C1 ==
    /\ call.op = "find_by_name"
    /\ result.t = "dict"
    /\ \E n \in 1..Len(data) :
           /\ CaseVariant(call.pokemon, data[n]["name"])
           /\ call.pokemon /= data[n]["name"]
           /\ call.pokemon /= lower(data[n]["name"])

\* C2: the lookup returns the record of the smallest index whose lowercased
\* name equals the lowercased query, and None exactly when there is no such
\* record, also in a store with several names equal ignoring case.
Thm_C2 ==
    call.op = "find_by_name" =>
        IF Matches(data, call.pokemon) = {}
        THEN result = PyNone
        ELSE result = PyRef(FirstMatch(data, call.pokemon))

Wit_C2 ==
    /\ call.op = "find_by_name"
    /\ Cardinality(Matches(data, call.pokemon)) >= 2
    /\ data[1] /= data[2]
    /\ result = PyRef(1)

\* C3: for a matched record the hidden ability is "None" if a2 = a0 or
\* a2 = a1 as exact strings and a2 unchanged otherwise, so abilities that
\* differ only in casing are distinct.
Thm_C3 ==
    (call.op = "hidden_ability" /\ Matched) =>
        /\ result.t = "str"
        /\ result.v = Derived(MatchedRecord["abilities"])

Wit_C3 ==
    /\ call.op = "hidden_ability"
    /\ Matched
    /\ LET a == MatchedRecord["abilities"]
       IN  /\ a[3] /= a[1]
           /\ lower(a[3]) = lower(a[1])
           /\ a[3] /= a[2]
           /\ result = PyStr(a[3])

\* C4: for a matched record the rendered EV yield is exactly the entries
\* "<label>: <value>" of the nonzero positions, in stat order, joined by
\* ", " with no leading or trailing separator.
Thm_C4 ==
    (call.op = "print_ev_yield" /\ Matched) =>
        result = PyStr(JoinedFrom(MatchedRecord["ev_yield"], 1))

Wit_C4 ==
    /\ call.op = "print_ev_yield"
    /\ Matched
    /\ LET evs == MatchedRecord["ev_yield"]
       IN  /\ evs[1] = 0
           /\ evs[4] = 12
           /\ evs[6] /= 0
           /\ Cardinality({n \in 1..Len(evs) : evs[n] /= 0}) = 3

\* C5: for a query that matches no record both print_ev_yield and
\* print_hidden_ability return a string that contains the name as supplied
\* (original casing) and a not-found indication.
Thm_C5 ==
    (call.op \in {"print_ev_yield", "print_hidden_ability"} /\ ~Matched) =>
        /\ result.t = "str"
        /\ Infix(call.pokemon, result.v)
        /\ Infix(NotFoundText, result.v)

Wit_C5 ==
    /\ call.op = "print_hidden_ability"
    /\ ~Matched
    /\ Len(data) > 0
    /\ call.pokemon /= lower(call.pokemon)
    /\ result.t = "str"

\* C6: the EV-yield query on a record whose ev_yield is all zero reports the
\* record as found with an empty description, which differs from the
\* not-found message; the not-found message is returned only when no record
\* matches.
Thm_C6 ==
    call.op = "print_ev_yield" =>
        /\ (Matched /\ \A n \in 1..Len(MatchedRecord["ev_yield"]) :
                           MatchedRecord["ev_yield"][n] = 0) =>
               /\ result = PyStr(<<>>)
               /\ result.v /= not_found(call.pokemon)
        /\ Infix(NotFoundText, result.v) => ~Matched

Wit_C6 ==
    /\ call.op = "print_ev_yield"
    /\ Matched
    /\ MatchedRecord["ev_yield"] = <<0, 0, 0, 0, 0, 0>>
    /\ result = PyStr(<<>>)

\* C7 (as claimed): the hidden-ability query returns the not-found message
\* if and only if no record matches; for a matched record, whatever its three
\* ability strings, the result is "Hidden ability: <derived value>".
Claim_C7 ==
    call.op = "print_hidden_ability" =>
        /\ Infix(NotFoundText, result.v) <=> ~Matched
        /\ Matched =>
               result.v = HiddenAbilityPrefix \o Derived(MatchedRecord["abilities"])

\* C8 (as claimed): a stat whose value is zero or negative has no entry in
\* the rendered EV yield of a matched record.
Claim_C8 ==
    (call.op = "print_ev_yield" /\ Matched) =>
        \A n \in 1..Len(MatchedRecord["ev_yield"]) :
            MatchedRecord["ev_yield"][n] <= 0 => ~HasEntry(result.v, n)

\* C8 (amended): a stat has an entry in the rendered EV yield of a matched
\* record exactly when its value is not zero; a negative value is rendered
\* as "<label>: <value>" like a positive one.
Thm_C8 ==
    (call.op = "print_ev_yield" /\ Matched) =>
        \A n \in 1..Len(MatchedRecord["ev_yield"]) :
            /\ HasEntry(result.v, n) <=> MatchedRecord["ev_yield"][n] /= 0
            /\ MatchedRecord["ev_yield"][n] < 0 =>
                   Infix(Entry(MatchedRecord["ev_yield"], n), result.v)

Wit_C8 ==
    /\ call.op = "print_ev_yield"
    /\ Matched
    /\ MatchedRecord["ev_yield"][3] < 0
    /\ MatchedRecord["ev_yield"][5] = 0
    /\ HasEntry(result.v, 3)
    /\ ~HasEntry(result.v, 5)

\* C9: no lookup, EV-yield query or hidden-ability query, matching or not,
\* changes the stored sequence of records.
Thm_C9 == [][data' = data]_vars

Wit_C9 ==
    /\ call.op = "print_ev_yield"
    /\ Matched
    /\ Len(data) = 2
    /\ \E n \in 1..Len(data) : data[n]["name"] /= lower(data[n]["name"])

\* the source is missing, or its first line is no JSON document
LoadFails(f) == ~f.exists \/ f.lines = <<>> \/ ~f.lines[1].json

ResultPrinted == \E k \in 1..Len(stdout) : stdout[k].kind = "result"

\* C10: in a process run the store is loaded at most once and before the
\* query is evaluated; when the load fails the run ends with no query
\* evaluated and no query result printed, and a query is only answered from
\* the whole decoded record sequence.
Inv_C10 ==
    /\ loads <= 1
    /\ (call /= NoCall \/ ResultPrinted) =>
           /\ loads = 1
           /\ ~LoadFails(file)
           /\ data = file.lines[1].value
           /\ exc = ""
    /\ (pc \in {"call", "exit"} /\ Truthy(command) /\ LoadFails(file)) =>
           /\ pc = "exit"
           /\ exc \in {"FileNotFoundError", "JSONDecodeError"}
           /\ loads = 0
           /\ call = NoCall
           /\ ~ResultPrinted

====
